---- MODULE Spec2Model ----
(***************************************************************************)
(* VideoPlayerObserver (packages/expo-video/ios/VideoPlayerObserver.swift) *)
(* as a state machine.  The AVPlayer and its items are the environment;    *)
(* every KVO / NotificationCenter callback is one action that changes the  *)
(* observed attribute and runs the handler of the observer on the new      *)
(* values (KVO delivers synchronously on the changing thread).  The owner  *)
(* (VideoPlayer) is alive throughout, so `player` is never nil.            *)
(* The same file carries the Android VideoModule; its blocking property    *)
(* getters and launching setters are the last group of actions.            *)
(***************************************************************************)
EXTENDS Integers, Sequences, FiniteSets, TLC

\* ---------------------------------------------------------------- bounds
MaxHandles == 2        \* handles the delegate set may hold for one listener
MaxTasks == 1          \* tracks tasks in flight at a time
MaxInterval == 2       \* distinct time-update intervals
MaxTimeObservers == 2  \* periodic observers installed on the AVPlayer
MaxLog == 2            \* events in an item's access log
MaxTracks == 2         \* video tracks an item knows
MaxQueue == 2          \* blocks waiting on the main queue
MaxImmediates == 3     \* calls of setImmediate
MaxObjects == 3        \* NativeDatabases, and NativeStatements, constructed

\* ------------------------------------------------------------- universes
None == "none"
Items == {"i1", "i2"}                  \* VideoPlayerItem instances
Foreign == "foreign"                   \* an AVPlayerItem that is no VideoPlayerItem
DelegateOrder == <<"d1", "d2">>        \* listeners, in the order a fan-out visits them
Delegates == {DelegateOrder[k] : k \in 1..Len(DelegateOrder)}
Intervals == 1..MaxInterval
AVStatus == {"unknown", "readyToPlay", "failed"}
TimeControl == {"paused", "waitingToPlayAtSpecifiedRate", "playing"}
PlayerStatus == {"idle", "loading", "readyToPlay", "error"}
\* VideoPlayerItem.isHls
IsHls(item) == item = "i1"

VARIABLES
  player,               \* the AVPlayer and its items (environment)
  live,                 \* listener objects not yet destroyed
  delegates,            \* Set<WeakPlayerObserverDelegate>: referent -> handles held
  currentItem,
  loadedCurrentItem,
  periodicTimeObserver, \* 0 = nil, else the interval of the installed token
  currentVideoTrack,
  isPlaying,
  error,
  status,
  playerObservers,      \* the player-level KVO observations are valid
  itemObservers,        \* item the item-level observations are installed on
  tasks,                \* items whose tracks Task has started and not finished
  out,                  \* delegate callbacks made by the last operation, in order
  lastEvent,            \* the last operation and its argument
  loadedCalls,          \* onLoadedPlayerItem calls since the last item change began
  scenario,             \* progress of the event order bind(unknown), ready+empty, not-empty
  cleanedUp,            \* cleanup() has returned at least once
  watch,                \* listeners registered when cleanup() ran, not registered again since
  reRegistered,         \* listeners registerDelegate was called for while registered
  taskInput,            \* what the tracks Task that just ran read (NoInput otherwise)
  didSetPending,        \* a tracks Task has assigned currentVideoTrack, didSet not run yet
  activeItemObservers,  \* items that item-level observations are registered on and valid
  cleanupPc,            \* statements of cleanup() a running call has executed (0 = none)
  mainQueue,            \* blocks posted to the main queue and not run yet (Android module)
  getter,               \* per thread: the synchronous property read it is in, if any
  GUIID,                \* immediateShim: the next immediate id
  clearedImmediates,    \* immediateShim: the Set of cleared ids
  microtasks,           \* ids of the immediates whose microtask is queued, in order
  invoked,              \* id -> times its callback was invoked
  clearedInWindow,      \* ids clearImmediate was given while their microtask was queued
  clearedAhead,         \* ids clearImmediate was given before setImmediate assigned them
  returned,             \* the ids setImmediate returned, in order
  nextNativeDatabaseId, \* SQLiteModule.ts
  nextNativeStatementId,
  liveDatabases,        \* ids of the NativeDatabases not closed
  liveStatements,       \* ids of the NativeStatements not finalized
  databaseLog,          \* constructions and closes of NativeDatabases, in order
  statementLog          \* constructions and finalizes of NativeStatements, in order

vars == <<player, live, delegates, currentItem, loadedCurrentItem, periodicTimeObserver,
          currentVideoTrack, isPlaying, error, status, playerObservers, itemObservers,
          tasks, out, lastEvent, loadedCalls, scenario, cleanedUp, watch, reRegistered,
          taskInput, didSetPending, activeItemObservers, cleanupPc, mainQueue, getter,
          GUIID, clearedImmediates, microtasks, invoked, clearedInWindow, clearedAhead,
          returned, nextNativeDatabaseId, nextNativeStatementId, liveDatabases,
          liveStatements, databaseLog, statementLog>>

\* the state of expo-video (observer and module), of immediateShim.js, of SQLiteModule.ts
videoVars == <<player, live, delegates, currentItem, loadedCurrentItem, periodicTimeObserver,
               currentVideoTrack, isPlaying, error, status, playerObservers, itemObservers,
               tasks, out, lastEvent, loadedCalls, scenario, cleanedUp, watch, reRegistered,
               taskInput, didSetPending, activeItemObservers, cleanupPc, mainQueue, getter>>
shimVars == <<GUIID, clearedImmediates, microtasks, invoked, clearedInWindow, clearedAhead,
              returned>>
sqliteVars == <<nextNativeDatabaseId, nextNativeStatementId, liveDatabases, liveStatements,
                databaseLog, statementLog>>

\* ------------------------------------------------------- the environment
\* AVPlayerItem.status of whatever AVPlayer.currentItem is ("nil" when no item)
CurrentItemStatus(p) ==
  IF p.currentItem = None THEN "nil"
  ELSE IF p.currentItem = Foreign THEN (IF p.foreignFailed THEN "failed" ELSE "unknown")
  ELSE p.itemStatus[p.currentItem]

BoolStr(b) == IF b THEN "true" ELSE "false"

\* ------------------------------------------------------ delegate registry
\* mutant: handles compared by their own identity, never equal to a new handle
WeakEqNever(a, b) == FALSE

\* WeakPlayerObserverDelegate.==  : both live and the same listener, or both expired
WeakEq(a, b) ==
  IF a \in live /\ b \in live THEN a = b ELSE (a \notin live /\ b \notin live)

\* Set.insert: no-op when a member equal to the new handle exists
SetInsert(dels, d) ==
  IF \E r \in Delegates : dels[r] > 0 /\ WeakEq(r, d)
  THEN dels
  ELSE [dels EXCEPT ![d] = @ + 1]

\* mutant: every handle equals the handle looked for
SetRemoveAnyHandle(dels, d) ==
  IF \E r \in Delegates : dels[r] > 0
  THEN LET r == CHOOSE x \in Delegates : dels[x] > 0
       IN [dels EXCEPT ![r] = @ - 1]
  ELSE dels

\* Set.remove: removes the member equal to the handle, if any
SetRemove(dels, d) ==
  IF \E r \in Delegates : dels[r] > 0 /\ WeakEq(r, d)
  THEN LET r == CHOOSE x \in Delegates : dels[x] > 0 /\ WeakEq(x, d)
       IN [dels EXCEPT ![r] = @ - 1]
  ELSE dels

RECURSIVE Rep(_, _)
Rep(x, n) == IF n = 0 THEN <<>> ELSE <<x>> \o Rep(x, n - 1)

\* mutant: the handles hold their listeners strongly (or unowned): every handle is
\* called
RECURSIVE RecipientsUnowned(_, _)
RecipientsUnowned(dels, k) ==
  IF k > Len(DelegateOrder) THEN <<>>
  ELSE Rep(DelegateOrder[k], dels[DelegateOrder[k]]) \o RecipientsUnowned(dels, k + 1)

\* delegates.forEach { $0.value?... } : the listeners a fan-out reaches, one entry
\* per handle whose weak value is still there
RECURSIVE Recipients(_, _)
Recipients(dels, k) ==
  IF k > Len(DelegateOrder) THEN <<>>
  ELSE (IF DelegateOrder[k] \in live THEN Rep(DelegateOrder[k], dels[DelegateOrder[k]])
        ELSE <<>>) \o Recipients(dels, k + 1)

FanOut(dels, cb, old, new, err) ==
  LET to == Recipients(dels, 1)
  IN [k \in 1..Len(to) |-> [cb |-> cb, to |-> to[k], old |-> old, new |-> new, err |-> err]]

\* ------------------------------------------------- the observer's fields
Self ==
  [delegates |-> delegates, currentItem |-> currentItem,
   loadedCurrentItem |-> loadedCurrentItem, currentVideoTrack |-> currentVideoTrack,
   isPlaying |-> isPlaying, error |-> error, status |-> status,
   itemObservers |-> itemObservers, activeItemObservers |-> activeItemObservers,
   loadedCalls |-> loadedCalls, out |-> <<>>]

Commit(s) ==
  /\ delegates' = s.delegates
  /\ currentItem' = s.currentItem
  /\ loadedCurrentItem' = s.loadedCurrentItem
  /\ currentVideoTrack' = s.currentVideoTrack
  /\ isPlaying' = s.isPlaying
  /\ error' = s.error
  /\ status' = s.status
  /\ itemObservers' = s.itemObservers
  /\ activeItemObservers' = s.activeItemObservers
  /\ loadedCalls' = s.loadedCalls
  /\ out' = s.out

Emit(s, cb, old, new, err) ==
  [s EXCEPT !.out = @ \o FanOut(s.delegates, cb, old, new, err)]

\* mutant: didSet without the oldValue != currentVideoTrack test
SetCurrentVideoTrackAlways(s, t) ==
  Emit([s EXCEPT !.currentVideoTrack = t], "onVideoTrackChanged", s.currentVideoTrack, t, "-")

\* currentVideoTrack didSet, run after the store with the value it replaced
CurrentVideoTrackDidSet(s, oldValue) ==
  IF oldValue # s.currentVideoTrack
  THEN Emit(s, "onVideoTrackChanged", oldValue, s.currentVideoTrack, "-")
  ELSE s

\* currentVideoTrack = t : the store, then didSet
SetCurrentVideoTrack(s, t) ==
  CurrentVideoTrackDidSet([s EXCEPT !.currentVideoTrack = t], s.currentVideoTrack)

\* mutant: didSet without the oldValue != isPlaying test
SetIsPlayingAlways(s, b) ==
  Emit([s EXCEPT !.isPlaying = b], "onIsPlayingChanged", BoolStr(s.isPlaying), BoolStr(b), "-")

\* isPlaying didSet
SetIsPlaying(s, b) ==
  LET s1 == [s EXCEPT !.isPlaying = b]
  IN IF s.isPlaying # b
     THEN Emit(s1, "onIsPlayingChanged", BoolStr(s.isPlaying), BoolStr(b), "-")
     ELSE s1

\* status didSet
SetStatus(s, st) ==
  LET s1 == [s EXCEPT !.status = st]
  IN IF s.status # st
     THEN Emit(s1, "onStatusChanged", s.status, st, s.error)
     ELSE s1

\* ------------------------------------------------------------ exceptions
\* what a stored Exception is, for the description of one built from it
Describe(e) ==
  IF e = "nil" THEN "nil"
  ELSE IF e = "PlayerException" THEN "PlayerException"
  ELSE "PlayerItemLoadException"

\* PlayerItemLoadException(playerItemError?.description)
PlayerItemLoadException(d) ==
  CASE d = "caching" -> "ItemLoad(caching)"
    [] d = "PlayerException" -> "ItemLoad(PlayerException)"
    [] d = "PlayerItemLoadException" -> "ItemLoad(PlayerItemLoadException)"
    [] OTHER -> "ItemLoad(nil)"

\* --------------------------------------------------------- track matching
\* A URL is its directory part (scheme, host and the path up to the last "/", as a
\* sequence of pieces), its last path component and its query; a string is the
\* sequence of its pieces.
Dir == <<"https://host/", "path/">>
ItemUrls ==
  {[dir |-> Dir, file |-> "master.m3u8", query |-> q] : q \in {None, "token=1"}}

\* URL.absoluteString
AbsoluteString(u) ==
  u.dir \o (IF u.file = None THEN <<>> ELSE <<u.file>>)
        \o (IF u.query = None THEN <<>> ELSE <<"?", u.query>>)
\* components?.query = nil
WithoutQuery(u) == [u EXCEPT !.query = None]
\* URL.deletingLastPathComponent()
DeletingLastPathComponent(u) == [u EXCEPT !.file = None]

\* String.replacingOccurrences(of: pat, with: ""): every occurrence goes, left to right
RECURSIVE ReplacingOccurrences(_, _)
ReplacingOccurrences(str, pat) ==
  IF pat = <<>> \/ Len(str) < Len(pat) THEN str
  ELSE IF SubSeq(str, 1, Len(pat)) = pat
       THEN ReplacingOccurrences(SubSeq(str, Len(pat) + 1, Len(str)), pat)
       ELSE <<Head(str)>> \o ReplacingOccurrences(Tail(str), pat)

\* VideoTrack values and their ids
KnownTracks ==
  {[name |-> "t720", id |-> <<"track-720p.m3u8">>],
   [name |-> "t1080", id |-> <<"track-1080p.m3u8">>]}
\* uris an access-log event may carry
LogUris ==
  {Dir \o <<"track-720p.m3u8">>,
   Dir \o <<"track-1080p.m3u8">>,
   Dir \o <<"track-720p.m3u8">> \o Dir}
\* AVPlayerItemAccessLogEvent: uri is optional
LogEvents ==
  {[hasUri |-> TRUE, uri |-> u] : u \in LogUris} \cup {[hasUri |-> FALSE, uri |-> <<>>]}

SeqsUpTo(S, n) == UNION {[1..k -> S] : k \in 0..n}

\* videoTracks.first { $0.id == id }
RECURSIVE FirstWithId(_, _)
FirstWithId(videoTracks, id) ==
  IF videoTracks = <<>> THEN None
  ELSE IF Head(videoTracks).id = id THEN Head(videoTracks).name
  ELSE FirstWithId(Tail(videoTracks), id)

\* events.last(where: { $0.uri != nil }); an event without uri stands for nil
RECURSIVE LastWithUri(_)
LastWithUri(events) ==
  IF events = <<>> THEN [hasUri |-> FALSE, uri |-> <<>>]
  ELSE IF events[Len(events)].hasUri THEN events[Len(events)]
  ELSE LastWithUri(SubSeq(events, 1, Len(events) - 1))

\* mutant: the query of the item url is kept in the base
MatchToVideoTrackKeepsQuery(event, videoTracks, itemUrl) ==
  IF ~event.hasUri THEN None
  ELSE FirstWithId(videoTracks,
         ReplacingOccurrences(event.uri,
                              AbsoluteString(DeletingLastPathComponent(itemUrl))))

\* AVPlayerItemAccessLogEvent.matchToVideoTrack (a valid item url always has components)
MatchToVideoTrack(event, videoTracks, itemUrl) ==
  IF ~event.hasUri THEN None
  ELSE LET baseUriString ==
             AbsoluteString(DeletingLastPathComponent(WithoutQuery(itemUrl)))
           id == ReplacingOccurrences(event.uri, baseUriString)
       IN FirstWithId(videoTracks, id)

\* what one run of the tracks Task reads: the source uri of the item, its access log
\* and its video tracks (HLS) / the video tracks its asset loads (other sources)
TaskInputs ==
  {[uriPresent |-> TRUE, uri |-> u, log |-> l, tracks |-> ts] :
     u \in ItemUrls, l \in SeqsUpTo(LogEvents, MaxLog),
     ts \in SeqsUpTo(KnownTracks, MaxTracks)}
  \cup {[uriPresent |-> FALSE, uri |-> [dir |-> Dir, file |-> "master.m3u8", query |-> None],
          log |-> <<>>, tracks |-> <<>>]}
\* a few of them: no uri, a match, no match, no log and no track
SomeTaskInputs ==
  LET u == [dir |-> Dir, file |-> "master.m3u8", query |-> None]
      ev(x) == [hasUri |-> TRUE, uri |-> x]
      ts == <<[name |-> "t720", id |-> <<"track-720p.m3u8">>]>>
  IN {[uriPresent |-> FALSE, uri |-> u, log |-> <<>>, tracks |-> <<>>],
      [uriPresent |-> TRUE, uri |-> u, log |-> <<ev(Dir \o <<"track-720p.m3u8">>)>>,
       tracks |-> ts],
      [uriPresent |-> TRUE, uri |-> u, log |-> <<ev(Dir \o <<"track-1080p.m3u8">>)>>,
       tracks |-> ts],
      [uriPresent |-> TRUE, uri |-> u, log |-> <<>>, tracks |-> <<>>]}
NoInput ==
  [ran |-> FALSE, item |-> None, before |-> None,
   in |-> [uriPresent |-> FALSE, uri |-> [dir |-> Dir, file |-> None, query |-> None],
           log |-> <<>>, tracks |-> <<>>]]
NoDidSet == [active |-> FALSE, oldValue |-> None]

\* --------------------------------------------------------------- handlers
\* mutant: the subtitle-selection reset is left out
OnLoadedPlayerItemNoReset(s, item) ==
  Emit([s EXCEPT !.loadedCurrentItem = TRUE, !.loadedCalls = IF @ < 2 THEN @ + 1 ELSE @],
       "onLoadedPlayerItem", "-", item, "-")

\* mutant: the subtitle-selection reset goes out before onLoadedPlayerItem
OnLoadedPlayerItemResetFirst(s, item) ==
  LET s1 == [s EXCEPT !.loadedCurrentItem = TRUE,
                      !.loadedCalls = IF @ < 2 THEN @ + 1 ELSE @]
      s2 == Emit(s1, "onSubtitleSelectionChanged", item, None, "-")
  IN Emit(s2, "onLoadedPlayerItem", "-", item, "-")

OnLoadedPlayerItem(s, item) ==
  LET s1 == [s EXCEPT !.loadedCurrentItem = TRUE,
                      !.loadedCalls = IF @ < 2 THEN @ + 1 ELSE @]
      s2 == Emit(s1, "onLoadedPlayerItem", "-", item, "-")
  IN Emit(s2, "onSubtitleSelectionChanged", item, None, "-")

\* cachingError: whether the item's cachingError field is set when the handler reads it
OnItemStatusChanged(s, item, p, cachingError) ==
  LET st == p.itemStatus[item]
      s1 == IF p.status # "failed" THEN [s EXCEPT !.error = "nil"] ELSE s
      s2 == CASE st = "unknown" -> SetStatus(s1, "loading")
              [] st = "failed" ->
                   LET playerItemError == IF cachingError THEN "caching"
                                          ELSE Describe(s1.error)
                   IN SetStatus([s1 EXCEPT !.error = PlayerItemLoadException(playerItemError)],
                                "error")
              [] OTHER -> IF p.bufferEmpty THEN SetStatus(s1, "loading")
                          ELSE SetStatus(s1, "readyToPlay")
      s3 == IF ~s2.loadedCurrentItem /\ s2.status \in {"readyToPlay", "error"}
            THEN OnLoadedPlayerItem(s2, item)
            ELSE s2
  IN Emit(s3, "onPlayerItemStatusChanged", "nil", st, "-")

\* mutant: status is assigned before error
OnPlayerStatusChangedStatusFirst(s, p) ==
  LET s1 == IF CurrentItemStatus(p) # "failed" THEN [s EXCEPT !.error = "nil"] ELSE s
  IN IF p.status = "failed"
     THEN [SetStatus(s1, "error") EXCEPT !.error = "PlayerException"]
     ELSE s1

\* mutant: the failure stores the exception and forgets the status
OnPlayerStatusChangedKeepsStatus(s, p) ==
  IF p.status = "failed" THEN [s EXCEPT !.error = "PlayerException"]
  ELSE IF CurrentItemStatus(p) # "failed" THEN [s EXCEPT !.error = "nil"] ELSE s

OnPlayerStatusChanged(s, p) ==
  LET s1 == IF CurrentItemStatus(p) # "failed" THEN [s EXCEPT !.error = "nil"] ELSE s
  IN IF p.status = "failed"
     THEN SetStatus([s1 EXCEPT !.error = "PlayerException"], "error")
     ELSE s1

\* mutant: no check for errors before isPlaying follows timeControlStatus
OnTimeControlStatusChangedNoErrorCheck(s, p) ==
  IF s.isPlaying # (p.timeControlStatus = "playing")
  THEN SetIsPlaying(s, p.timeControlStatus = "playing")
  ELSE s

OnTimeControlStatusChanged(s, p) ==
  IF p.status = "failed" \/ CurrentItemStatus(p) = "failed"
  THEN SetIsPlaying(s, FALSE)
  ELSE LET s1 == [s EXCEPT !.error = "nil"]
           bufferEmpty == s1.currentItem # None /\ p.bufferEmpty
           s2 == IF /\ p.timeControlStatus # "waitingToPlayAtSpecifiedRate"
                    /\ p.status = "readyToPlay"
                    /\ ~bufferEmpty
                 THEN SetStatus(s1, "readyToPlay")
                 ELSE IF p.timeControlStatus = "waitingToPlayAtSpecifiedRate"
                      THEN SetStatus(s1, "loading")
                      ELSE s1
       IN IF s2.isPlaying # (p.timeControlStatus = "playing")
          THEN SetIsPlaying(s2, p.timeControlStatus = "playing")
          ELSE s2

\* mutant: a buffer that is no longer empty makes the status readyToPlay
OnIsBufferEmptyChangedReady(s, p) ==
  IF p.bufferEmpty THEN SetStatus(s, "loading") ELSE SetStatus(s, "readyToPlay")

OnIsBufferEmptyChanged(s, p) ==
  IF p.bufferEmpty THEN SetStatus(s, "loading") ELSE s

\* likelyToKeepUp: the item's isPlaybackLikelyToKeepUp when the handler reads it
OnPlayerLikelyToKeepUpChanged(s, p, likelyToKeepUp) ==
  IF ~likelyToKeepUp /\ p.bufferEmpty THEN SetStatus(s, "loading")
  ELSE IF likelyToKeepUp THEN SetStatus(s, "readyToPlay")
  ELSE s

\* mutant: the observations the slots hold are left registered
InvalidateNothing(s) == s

\* invalidates / removes the observations the six slots hold
InvalidateCurrentPlayerItemObservers(s) ==
  [s EXCEPT !.itemObservers = None, !.activeItemObservers = @ \ {s.itemObservers}]

\* installs the item-level observers; the item-status one has .initial and calls back
\* at once
InitializeCurrentPlayerItemObservers(s, item, p, cachingError) ==
  OnItemStatusChanged([s EXCEPT !.itemObservers = item, !.activeItemObservers = @ \cup {item}],
                      item, p, cachingError)

\* the recognized-item branch, after the observers are installed
BindVideoPlayerItem(s, item) ==
  LET s1 == [s EXCEPT !.currentItem = item]
      s2 == Emit(s1, "onItemChanged", s1.currentItem, item, "-")
  IN [s2 EXCEPT !.loadedCurrentItem = FALSE]

\* what onPlayerCurrentItemChanged has done when it reaches the branch on the new item
BeforeBranch(s) ==
  SetCurrentVideoTrack(InvalidateCurrentPlayerItemObservers([s EXCEPT !.loadedCalls = 0]), None)

OnPlayerCurrentItemChanged(s, p, cachingError) ==
  LET newPlayerItem == p.currentItem
      s2 == BeforeBranch(s)
  IN IF newPlayerItem \in Items
     THEN BindVideoPlayerItem(
            InitializeCurrentPlayerItemObservers(s2, newPlayerItem, p, cachingError),
            newPlayerItem)
     ELSE LET s3 == IF newPlayerItem = None
                    THEN SetStatus(Emit(s2, "onItemChanged", s2.currentItem, None, "-"),
                                   "idle")
                    ELSE [s2 EXCEPT !.out = Append(@,
                            [cb |-> "log.warn", to |-> "log", old |-> "-", new |-> "-",
                             err |-> "-"])]
          IN OnLoadedPlayerItem([s3 EXCEPT !.currentItem = None], None)

\* ------------------------------------------------------ history monitors
ScenarioReset == [step |-> 0, pre |-> "-", sts |-> <<>>, notifs |-> <<>>]

\* the new statuses of the onStatusChanged callbacks the first listener got
RECURSIVE StatusNotifs(_)
StatusNotifs(o) ==
  IF o = <<>> THEN <<>>
  ELSE (IF Head(o).cb = "onStatusChanged" /\ Head(o).to = DelegateOrder[1]
        THEN <<Head(o).new>> ELSE <<>>) \o StatusNotifs(Tail(o))

ScenarioStep(sc, n, s) ==
  [step |-> n, pre |-> sc.pre, sts |-> Append(sc.sts, s.status),
   notifs |-> sc.notifs \o StatusNotifs(s.out)]

\* pre: what the operation found (the status before an engine-status event, whether
\* the sampler ran before a start, whether the delegate was registered before an
\* unregister), "-" for the other operations
EventFrom(name, arg, pre) == [name |-> name, arg |-> arg, pre |-> pre]
Event(name, arg) == EventFrom(name, arg, "-")

\* ------------------------------------------------- the Android module's reads
\* the threads a property of the module is read or written from
Threads == {"main", "js"}
\* Property(...).get { runBlocking(appContext.mainQueue.coroutineContext) { ... } }
BlockingGetters == {"currentTime", "currentLiveTimestamp", "currentOffsetFromLive",
                    "bufferedPosition"}
\* Property(...).set { appContext.mainQueue.launch { ... } }
LaunchingSetters == {"volume", "currentTime", "subtitleTrack"}
NoRead == [state |-> "idle", prop |-> None]

\* ------------------------------------------------- immediateShim.js, SQLiteModule.ts
\* the ids clearImmediate may be given: the ones setImmediate assigns and one more
ImmediateIds == 1..(MaxImmediates + 1)

\* mutant: the counter is read and not advanced
PostIncrementStuck(n) == [value |-> n, next |-> n]

\* n++ on a module-level counter: the value the expression has, the value stored
PostIncrement(n) == [value |-> n, next |-> n + 1]

\* mutant: an id cleared ahead of time stays cleared
KeepGuessedClear(cleared, id) == cleared

\* setImmediate: if (clearedImmediates.has(id)) clearedImmediates.delete(id)
ForgetGuessedClear(cleared, id) == IF id \in cleared THEN cleared \ {id} ELSE cleared

\* mutant: the microtask calls back without looking at clearedImmediates
MicrotaskAlwaysCalls(cleared, inv, id) ==
  [cleared |-> cleared, invoked |-> [inv EXCEPT ![id] = @ + 1]]

\* the microtask setImmediate queued for id
Microtask(cleared, inv, id) ==
  IF id \notin cleared
  THEN [cleared |-> cleared, invoked |-> [inv EXCEPT ![id] = @ + 1]]
  ELSE [cleared |-> cleared \ {id}, invoked |-> inv]

\* the ids with a queued microtask
Pending == { microtasks[k] : k \in DOMAIN microtasks }

\* ------------------------------------------------------------------ Init
FreshPlayer ==
  [status |-> "unknown", timeControlStatus |-> "paused", currentItem |-> None,
   itemStatus |-> [i \in Items |-> "unknown"], bufferEmpty |-> FALSE,
   foreignFailed |-> FALSE,
   cachingError |-> {},
   timeObservers |-> [iv \in Intervals |-> 0]]

FreshSelf ==
  [delegates |-> [d \in Delegates |-> 0], currentItem |-> None, loadedCurrentItem |-> FALSE,
   currentVideoTrack |-> None, isPlaying |-> FALSE, error |-> "nil", status |-> "idle",
   itemObservers |-> None, activeItemObservers |-> {}, loadedCalls |-> 0, out |-> <<>>]

\* init(owner:) -> initializePlayerObservers: the .initial callbacks of the status and
\* currentItem observations run before any delegate can register
InitWith(listeners) ==
  /\ player = FreshPlayer
  /\ live = listeners
  /\ LET s == OnPlayerCurrentItemChanged(OnPlayerStatusChanged(FreshSelf, FreshPlayer),
                                         FreshPlayer, FALSE)
     IN /\ delegates = s.delegates
        /\ currentItem = s.currentItem
        /\ loadedCurrentItem = s.loadedCurrentItem
        /\ currentVideoTrack = s.currentVideoTrack
        /\ isPlaying = s.isPlaying
        /\ error = s.error
        /\ status = s.status
        /\ itemObservers = s.itemObservers
        /\ activeItemObservers = s.activeItemObservers
        /\ loadedCalls = s.loadedCalls
        /\ out = s.out
  /\ periodicTimeObserver = 0
  /\ playerObservers = TRUE
  /\ tasks = {}
  /\ lastEvent = Event("init", None)
  /\ scenario = ScenarioReset
  /\ cleanedUp = FALSE
  /\ watch = {}
  /\ reRegistered = {}
  /\ taskInput = NoInput
  /\ didSetPending = NoDidSet
  /\ cleanupPc = 0
  /\ mainQueue = <<>>
  /\ getter = [t \in Threads |-> NoRead]
  /\ GUIID = 1
  /\ clearedImmediates = {}
  /\ microtasks = <<>>
  /\ invoked = [id \in ImmediateIds |-> 0]
  /\ clearedInWindow = {}
  /\ clearedAhead = {}
  /\ returned = <<>>
  /\ nextNativeDatabaseId = 0
  /\ nextNativeStatementId = 0
  /\ liveDatabases = {}
  /\ liveStatements = {}
  /\ databaseLog = <<>>
  /\ statementLog = <<>>

\* every listener of the universe exists
Init == InitWith(Delegates)
\* one listener exists
InitOne == InitWith({DelegateOrder[1]})

\* -------------------------------------------- actions: player-level KVO
\* no statement of a running cleanup() and nothing of the Android module ran in this step
Elsewhere == UNCHANGED <<cleanupPc, mainQueue, getter, shimVars, sqliteVars>>

\* no tracks Task ran in this step
Quiet == taskInput' = NoInput /\ UNCHANGED didSetPending /\ Elsewhere

\* what every KVO-driven action leaves alone
KvoFrame ==
  /\ Quiet
  /\ UNCHANGED <<live, periodicTimeObserver, playerObservers, tasks, cleanedUp, watch,
              reRegistered>>

\* AVPlayer.status changes (unknown -> readyToPlay | failed, readyToPlay -> failed)
PlayerStatusChange(new) ==
  /\ playerObservers
  /\ \/ player.status = "unknown" /\ new \in {"readyToPlay", "failed"}
     \/ player.status = "readyToPlay" /\ new = "failed"
  /\ \E p \in {[player EXCEPT !.status = new]} :
       \E s \in {OnPlayerStatusChanged(Self, p)} : player' = p /\ Commit(s)
  /\ lastEvent' = EventFrom("playerStatus", new, status)
  /\ scenario' = ScenarioReset
  /\ KvoFrame

TimeControlStatusChange(new) ==
  /\ playerObservers
  /\ new # player.timeControlStatus
  /\ \E p \in {[player EXCEPT !.timeControlStatus = new]} :
       \E s \in {OnTimeControlStatusChanged(Self, p)} : player' = p /\ Commit(s)
  /\ lastEvent' = Event("timeControlStatus", new)
  /\ scenario' = ScenarioReset
  /\ KvoFrame

\* the items whose cachingError field is set, after a handler has read the field of
\* item and found it set (caching) or nil
WithCachingError(set, item, caching) ==
  IF caching THEN set \cup {item} ELSE set \ {item}

\* ... when new, bound in p, is a failed VideoPlayerItem; the field is not read otherwise
CachingErrorRead(set, new, p, caching) ==
  IF new \in Items /\ p.itemStatus[new] = "failed"
  THEN WithCachingError(set, new, caching)
  ELSE set

\* AVPlayer.currentItem is replaced; a newly bound item reports some buffer state
ReplaceCurrentItem(new, buf, caching) ==
  /\ playerObservers
  /\ new # player.currentItem
  /\ (new \notin Items) => ~buf
  /\ caching => (new \in Items /\ player.itemStatus[new] = "failed")
  /\ \E p \in {[player EXCEPT !.currentItem = new, !.bufferEmpty = buf,
                               !.foreignFailed = FALSE,
                               !.cachingError = CachingErrorRead(@, new, player, caching)]} :
       \E s \in {OnPlayerCurrentItemChanged(Self, p, caching)} :
          /\ player' = p
          /\ Commit(s)
          /\ scenario' = IF new \in Items /\ player.itemStatus[new] = "unknown"
                         THEN ScenarioStep([ScenarioReset EXCEPT !.pre = status], 1, s)
                         ELSE ScenarioReset
  /\ lastEvent' = Event("currentItem", new)
  /\ KvoFrame

\* a foreign current item fails; no observer is installed on it
ForeignItemFails ==
  /\ playerObservers
  /\ player.currentItem = Foreign
  /\ ~player.foreignFailed
  /\ player' = [player EXCEPT !.foreignFailed = TRUE]
  /\ out' = <<>>
  /\ lastEvent' = Event("foreignItemFails", None)
  /\ scenario' = ScenarioReset
  /\ Quiet
  /\ UNCHANGED <<live, delegates, currentItem, loadedCurrentItem, periodicTimeObserver,
                 currentVideoTrack, isPlaying, error, status, playerObservers,
                 itemObservers, activeItemObservers, tasks, loadedCalls, cleanedUp, watch, reRegistered>>

\* --------------------------------------------- actions: item-level KVO
\* the bound VideoPlayerItem, whose observers are installed
Observed == itemObservers \in Items /\ itemObservers = player.currentItem

ItemStatusChange(new, caching) ==
  /\ Observed
  /\ LET item == itemObservers
     IN /\ \/ player.itemStatus[item] = "unknown" /\ new \in {"readyToPlay", "failed"}
           \/ player.itemStatus[item] = "readyToPlay" /\ new = "failed"
        /\ caching => new = "failed"
        /\ \E p \in {[player EXCEPT !.itemStatus[item] = new,
                                     !.cachingError = IF new = "failed"
                                                      THEN WithCachingError(@, item, caching)
                                                      ELSE @]} :
             \E s \in {OnItemStatusChanged(Self, item, p, caching)} :
                /\ player' = p
                /\ Commit(s)
                /\ scenario' = IF /\ scenario.step = 1
                                  /\ new = "readyToPlay"
                                  /\ player.bufferEmpty
                               THEN ScenarioStep(scenario, 2, s)
                               ELSE ScenarioReset
        /\ lastEvent' = Event("itemStatus", new)
  /\ KvoFrame

IsBufferEmptyChange ==
  /\ Observed
  /\ \E p \in {[player EXCEPT !.bufferEmpty = ~@]} :
       \E s \in {OnIsBufferEmptyChanged(Self, p)} :
          /\ player' = p
          /\ Commit(s)
          /\ scenario' = IF scenario.step = 2 /\ ~p.bufferEmpty
                         THEN ScenarioStep(scenario, 3, s)
                         ELSE ScenarioReset
          /\ lastEvent' = Event("isPlaybackBufferEmpty", BoolStr(p.bufferEmpty))
  /\ KvoFrame

\* isPlaybackLikelyToKeepUp is set (KVO notifies on every set) to likelyToKeepUp
LikelyToKeepUpChange(likelyToKeepUp) ==
  /\ Observed
  /\ \E s \in {OnPlayerLikelyToKeepUpChanged(Self, player, likelyToKeepUp)} : Commit(s)
  /\ lastEvent' = Event("isPlaybackLikelyToKeepUp", BoolStr(likelyToKeepUp))
  /\ scenario' = ScenarioReset
  /\ UNCHANGED player
  /\ KvoFrame

\* ------------------------------------------- actions: tracks observation
\* the tracks observer fires and starts a Task that holds the observed item
TracksChange ==
  /\ Observed
  /\ Cardinality(tasks \cup {itemObservers}) <= MaxTasks
  /\ tasks' = tasks \cup {itemObservers}
  /\ out' = <<>>
  /\ lastEvent' = Event("tracks", itemObservers)
  /\ scenario' = ScenarioReset
  /\ Quiet
  /\ UNCHANGED <<player, live, delegates, currentItem, loadedCurrentItem,
                 periodicTimeObserver, currentVideoTrack, isPlaying, error, status,
                 playerObservers, itemObservers, activeItemObservers, loadedCalls, cleanedUp, watch,
                 reRegistered>>

\* the tracks observer fires while no Task is in flight
TracksChangeAlone == tasks = {} /\ TracksChange

\* the value the Task assigns to currentVideoTrack, when it assigns one
TaskAssigns(item, in) ==
  IF IsHls(item) THEN in.uriPresent ELSE in.tracks # <<>>
TaskValue(item, in) ==
  IF IsHls(item)
  THEN MatchToVideoTrack(LastWithUri(in.log), in.tracks, in.uri)
  ELSE Head(in.tracks).name

\* mutant: a log that matches no known track leaves the track alone
TracksTaskKeepsTrack(s, item, in) ==
  IF TaskAssigns(item, in) /\ TaskValue(item, in) # None
  THEN SetCurrentVideoTrack(s, TaskValue(item, in))
  ELSE s

\* the body of the Task, run in one piece
TracksTask(s, item, in) ==
  IF TaskAssigns(item, in) THEN SetCurrentVideoTrack(s, TaskValue(item, in)) ELSE s

TaskFrame ==
  /\ Elsewhere
  /\ UNCHANGED <<player, live, periodicTimeObserver, playerObservers, cleanedUp, watch,
                 reRegistered>>

TaskComplete(item, in) ==
  /\ item \in tasks
  /\ ~didSetPending.active
  /\ tasks' = tasks \ {item}
  /\ \E s \in {TracksTask(Self, item, in)} : Commit(s)
  /\ taskInput' = [ran |-> TRUE, item |-> item, before |-> currentVideoTrack, in |-> in]
  /\ lastEvent' = Event("tracksTask", item)
  /\ scenario' = ScenarioReset
  /\ UNCHANGED didSetPending
  /\ TaskFrame

\* The Task runs on the cooperative pool, the KVO handlers on the threads that change
\* the player: the store of the Task's assignment and the didSet that follows it are
\* two steps, and other operations may run in between.
TaskStore(item, in) ==
  /\ item \in tasks
  /\ ~didSetPending.active
  /\ TaskAssigns(item, in)
  /\ tasks' = tasks \ {item}
  /\ currentVideoTrack' = TaskValue(item, in)
  /\ didSetPending' = [active |-> TRUE, oldValue |-> currentVideoTrack]
  /\ taskInput' = [ran |-> TRUE, item |-> item, before |-> currentVideoTrack, in |-> in]
  /\ out' = <<>>
  /\ lastEvent' = Event("tracksTaskStore", item)
  /\ scenario' = ScenarioReset
  /\ UNCHANGED <<delegates, currentItem, loadedCurrentItem, isPlaying, error, status,
                 itemObservers, activeItemObservers, loadedCalls>>
  /\ TaskFrame

TaskDidSet ==
  /\ didSetPending.active
  /\ \E s \in {CurrentVideoTrackDidSet(Self, didSetPending.oldValue)} : Commit(s)
  /\ didSetPending' = NoDidSet
  /\ taskInput' = NoInput
  /\ lastEvent' = Event("tracksTaskDidSet", None)
  /\ scenario' = ScenarioReset
  /\ UNCHANGED tasks
  /\ TaskFrame

\* ------------------------------------- actions: notifications, fan-out only
OnPlayedToEnd(s) == Emit(s, "onPlayedToEnd", "-", "-", "-")

OnMediaSelectionDidChange(s, item, subtitleTrack) ==
  Emit(s, "onSubtitleSelectionChanged", item, subtitleTrack, "-")

\* onPlayerRateChanged / onPlayerVolumeChanged / onPlayerIsMutedChanged
OnPlayerValueChanged(s, cb, changed) ==
  IF changed THEN Emit(s, cb, "old", "new", "-") ELSE s

FanOutFrame ==
  /\ Quiet
  /\ UNCHANGED <<player, live, periodicTimeObserver, playerObservers, tasks, cleanedUp, watch,
              reRegistered>>

PlayedToEnd ==
  /\ Observed
  /\ \E s \in {OnPlayedToEnd(Self)} : Commit(s)
  /\ lastEvent' = Event("playedToEnd", itemObservers)
  /\ scenario' = ScenarioReset
  /\ FanOutFrame

MediaSelectionDidChange(subtitleTrack) ==
  /\ Observed
  /\ \E s \in {OnMediaSelectionDidChange(Self, itemObservers, subtitleTrack)} : Commit(s)
  /\ lastEvent' = Event("mediaSelection", subtitleTrack)
  /\ scenario' = ScenarioReset
  /\ FanOutFrame

PlayerValueChange(cb, changed) ==
  /\ playerObservers
  /\ \E s \in {OnPlayerValueChanged(Self, cb, changed)} : Commit(s)
  /\ lastEvent' = Event(cb, BoolStr(changed))
  /\ scenario' = ScenarioReset
  /\ FanOutFrame

\* ------------------------------------------------ actions: the registry
RegistryFrame ==
  /\ Quiet
  /\ UNCHANGED <<player, currentItem, loadedCurrentItem, periodicTimeObserver,
              currentVideoTrack, isPlaying, error, status, playerObservers,
              itemObservers, activeItemObservers, tasks, loadedCalls, cleanedUp>>

RegisterDelegate(d) ==
  /\ d \in live
  /\ delegates[d] < MaxHandles
  /\ delegates' = SetInsert(delegates, d)
  /\ watch' = watch \ {d}
  /\ reRegistered' = IF delegates[d] > 0 THEN reRegistered \cup {d} ELSE reRegistered
  /\ out' = <<>>
  /\ lastEvent' = Event("registerDelegate", d)
  /\ scenario' = ScenarioReset
  /\ UNCHANGED live
  /\ RegistryFrame

UnregisterDelegate(d) ==
  /\ d \in live
  /\ delegates' = SetRemove(delegates, d)
  /\ reRegistered' = reRegistered \ {d}
  /\ out' = <<>>
  /\ lastEvent' = EventFrom("unregisterDelegate", d,
                            IF delegates[d] > 0 THEN "registered" ELSE "absent")
  /\ scenario' = ScenarioReset
  /\ UNCHANGED <<live, watch>>
  /\ RegistryFrame

\* a listener is deallocated; the weak values of its handles become nil
DestroyDelegate(d) ==
  /\ d \in live
  /\ live' = live \ {d}
  /\ out' = <<>>
  /\ lastEvent' = Event("destroyDelegate", d)
  /\ scenario' = ScenarioReset
  /\ UNCHANGED <<delegates, watch, reRegistered>>
  /\ RegistryFrame

\* --------------------------------------------------- actions: the sampler
Installed(p) == { iv \in Intervals : p.timeObservers[iv] > 0 }

RECURSIVE SumOver(_, _)
SumOver(f, S) ==
  IF S = {} THEN 0 ELSE LET x == CHOOSE y \in S : TRUE IN f[x] + SumOver(f, S \ {x})

\* mutant: the token is not set to nil after the observer is removed
StopTimeUpdatesKeepsToken(tok, inst) ==
  IF tok # 0
  THEN [tok |-> tok, inst |-> [inst EXCEPT ![tok] = @ - 1]]
  ELSE [tok |-> tok, inst |-> inst]

\* mutant: the token is dropped and the observer stays on the player
StopTimeUpdatesNoRemove(tok, inst) == [tok |-> 0, inst |-> inst]

\* stopTimeUpdates on (periodicTimeObserver, the player's installed observers)
StopTimeUpdatesOn(tok, inst) ==
  IF tok # 0
  THEN [tok |-> 0, inst |-> [inst EXCEPT ![tok] = @ - 1]]
  ELSE [tok |-> tok, inst |-> inst]

\* mutant: the new observer is added without stopTimeUpdates() first
StartWithoutStop(tok, inst, interval) ==
  [tok |-> interval, inst |-> [inst EXCEPT ![interval] = @ + 1]]

StartOrUpdateTimeUpdatesOn(tok, inst, interval) ==
  LET r == StopTimeUpdatesOn(tok, inst)
  IN [tok |-> interval, inst |-> [r.inst EXCEPT ![interval] = @ + 1]]

SamplerFrame ==
  /\ Quiet
  /\ UNCHANGED <<live, delegates, currentItem, loadedCurrentItem, currentVideoTrack,
              isPlaying, error, status, playerObservers, itemObservers, activeItemObservers, tasks,
              loadedCalls, cleanedUp, watch, reRegistered>>

StartOrUpdateTimeUpdates(interval) ==
  /\ SumOver(player.timeObservers, Intervals) < MaxTimeObservers
  /\ \E r \in {StartOrUpdateTimeUpdatesOn(periodicTimeObserver, player.timeObservers,
                                           interval)} :
        /\ periodicTimeObserver' = r.tok
        /\ player' = [player EXCEPT !.timeObservers = r.inst]
  /\ out' = <<>>
  /\ lastEvent' = EventFrom("startOrUpdateTimeUpdates", None,
                            IF periodicTimeObserver = 0 THEN "stopped"
                            ELSE IF periodicTimeObserver = interval THEN "same interval"
                            ELSE "other interval")
  /\ scenario' = ScenarioReset
  /\ SamplerFrame

StopTimeUpdates ==
  /\ \E r \in {StopTimeUpdatesOn(periodicTimeObserver, player.timeObservers)} :
        /\ periodicTimeObserver' = r.tok
        /\ player' = [player EXCEPT !.timeObservers = r.inst]
  /\ out' = <<>>
  /\ lastEvent' = Event("stopTimeUpdates", None)
  /\ scenario' = ScenarioReset
  /\ SamplerFrame

\* the block of one installed periodic observer runs
OnPeriodicTime(s) == Emit(s, "onTimeUpdate", "-", "-", "-")

Tick(interval) ==
  /\ player.timeObservers[interval] > 0
  /\ \E s \in {OnPeriodicTime(Self)} : Commit(s)
  /\ lastEvent' = Event("tick", None)
  /\ scenario' = ScenarioReset
  /\ FanOutFrame

\* --------------------------------------------------------------- cleanup
\* mutant: the delegate set is not cleared
RemoveNone(dels) == dels

\* delegates.removeAll()
RemoveAll(dels) == [d \in Delegates |-> 0]

\* mutant: the subscriptions are cancelled first, the delegate set is cleared last
CleanupOrderSubscriptionsFirst ==
  <<"invalidatePlayerObservers", "invalidateCurrentPlayerItemObservers", "stopTimeUpdates",
    "removeAll">>

\* the statements of cleanup(), in program order
CleanupOrder ==
  <<"removeAll", "invalidatePlayerObservers", "invalidateCurrentPlayerItemObservers",
    "stopTimeUpdates">>

\* the part of the state cleanup() works on
CleanupView ==
  [delegates |-> delegates, playerObservers |-> playerObservers,
   itemObservers |-> itemObservers, activeItemObservers |-> activeItemObservers,
   tok |-> periodicTimeObserver, inst |-> player.timeObservers]

\* one statement of cleanup()
CleanupStatement(c, name) ==
  CASE name = "removeAll" -> [c EXCEPT !.delegates = RemoveAll(@)]
    [] name = "invalidatePlayerObservers" -> [c EXCEPT !.playerObservers = FALSE]
    [] name = "invalidateCurrentPlayerItemObservers" -> InvalidateCurrentPlayerItemObservers(c)
    [] name = "stopTimeUpdates" ->
         LET r == StopTimeUpdatesOn(c.tok, c.inst)
         IN [c EXCEPT !.tok = r.tok, !.inst = r.inst]

\* the statements from the k-th on
RECURSIVE CleanupFrom(_, _)
CleanupFrom(c, k) ==
  IF k > Len(CleanupOrder) THEN c
  ELSE CleanupFrom(CleanupStatement(c, CleanupOrder[k]), k + 1)

CommitCleanup(c) ==
  /\ delegates' = c.delegates
  /\ playerObservers' = c.playerObservers
  /\ itemObservers' = c.itemObservers
  /\ activeItemObservers' = c.activeItemObservers
  /\ periodicTimeObserver' = c.tok
  /\ player' = [player EXCEPT !.timeObservers = c.inst]

\* the listeners a call of cleanup() takes the handles of
Watched == { d \in live : delegates[d] > 0 } \cup (IF cleanedUp THEN watch ELSE {})

\* cleanup() run in one piece; "again" when the operation before it was cleanup() too
Cleanup ==
  /\ cleanupPc = 0
  /\ CommitCleanup(CleanupFrom(CleanupView, 1))
  /\ cleanedUp' = TRUE
  /\ reRegistered' = {}
  /\ watch' = Watched
  /\ out' = <<>>
  /\ lastEvent' = Event("cleanup", IF lastEvent.name = "cleanup" THEN "again" ELSE "first")
  /\ scenario' = ScenarioReset
  /\ Quiet
  /\ UNCHANGED <<live, currentItem, loadedCurrentItem, currentVideoTrack, isPlaying,
                 error, status, tasks, loadedCalls>>

\* cleanup() as the threads run it: one statement per step, and the handlers of the
\* other threads may run in between
CleanupStatementRuns ==
  /\ \E name \in {CleanupOrder[cleanupPc + 1]} :
        /\ CommitCleanup(CleanupStatement(CleanupView, name))
        /\ watch' = IF name = "removeAll" THEN Watched ELSE watch
        /\ reRegistered' = IF name = "removeAll" THEN {} ELSE reRegistered
        /\ lastEvent' = Event("cleanupStatement", name)
  /\ cleanupPc' = (cleanupPc + 1) % Len(CleanupOrder)
  /\ cleanedUp' = (cleanedUp \/ cleanupPc + 1 = Len(CleanupOrder))
  /\ out' = <<>>
  /\ scenario' = ScenarioReset
  /\ taskInput' = NoInput
  /\ UNCHANGED <<live, currentItem, loadedCurrentItem, currentVideoTrack, isPlaying,
                 error, status, tasks, loadedCalls, didSetPending, mainQueue, getter,
                 shimVars, sqliteVars>>

\* ------------------------------------------- actions: the module's properties
\* what the steps of the module leave alone: the observer of the iOS player
ModuleFrame ==
  /\ taskInput' = NoInput
  /\ UNCHANGED <<player, live, delegates, currentItem, loadedCurrentItem,
                 periodicTimeObserver, currentVideoTrack, isPlaying, error, status,
                 playerObservers, itemObservers, tasks, out, loadedCalls, scenario,
                 cleanedUp, watch, reRegistered, didSetPending, activeItemObservers,
                 cleanupPc, shimVars, sqliteVars>>

\* a getter runs on thread t: runBlocking hands its block to the main queue and parks
\* t until the block has run
GetterCall(t, prop) ==
  /\ getter[t].state = "idle"
  /\ Len(mainQueue) < MaxQueue
  /\ mainQueue' = Append(mainQueue, [kind |-> "get", prop |-> prop, from |-> t])
  /\ getter' = [getter EXCEPT ![t] = [state |-> "waiting", prop |-> prop]]
  /\ lastEvent' = Event("getterCall", prop)
  /\ ModuleFrame

\* a setter runs on thread t: launch posts its block and returns
SetterCall(t, prop) ==
  /\ getter[t].state = "idle"
  /\ Len(mainQueue) < MaxQueue
  /\ mainQueue' = Append(mainQueue, [kind |-> "set", prop |-> prop, from |-> t])
  /\ lastEvent' = Event("setterCall", prop)
  /\ UNCHANGED getter
  /\ ModuleFrame

\* the main thread takes the next block off its queue and runs it, which it cannot do
\* while it is parked in a runBlocking of its own
MainRunsBlock ==
  /\ mainQueue # <<>>
  /\ getter["main"].state # "waiting"
  /\ mainQueue' = Tail(mainQueue)
  /\ getter' = IF Head(mainQueue).kind = "get"
                THEN [getter EXCEPT ![Head(mainQueue).from].state = "done"]
                ELSE getter
  /\ lastEvent' = Event("mainRunsBlock", Head(mainQueue).prop)
  /\ ModuleFrame

\* runBlocking returns the block's value to the getter's caller
GetterReturn(t) ==
  /\ getter[t].state = "done"
  /\ getter' = [getter EXCEPT ![t] = NoRead]
  /\ lastEvent' = Event("getterReturn", getter[t].prop)
  /\ UNCHANGED mainQueue
  /\ ModuleFrame

\* ------------------------------------------------- actions: immediateShim.js
ShimFrame == UNCHANGED <<videoVars, sqliteVars>>

\* setImmediate(callback, ...args) with a function for callback (anything else throws
\* before a statement that changes state)
SetImmediate ==
  /\ GUIID <= MaxImmediates
  /\ \E r \in {PostIncrement(GUIID)} :
        /\ GUIID' = r.next
        /\ clearedImmediates' = ForgetGuessedClear(clearedImmediates, r.value)
        /\ microtasks' = Append(microtasks, r.value)
        /\ returned' = Append(returned, r.value)
  /\ UNCHANGED <<invoked, clearedInWindow, clearedAhead>>
  /\ ShimFrame

ClearImmediate(immediateID) ==
  /\ clearedImmediates' = clearedImmediates \cup {immediateID}
  /\ clearedInWindow' = IF immediateID \in Pending
                         THEN clearedInWindow \cup {immediateID}
                         ELSE clearedInWindow
  /\ clearedAhead' = IF immediateID >= GUIID
                      THEN clearedAhead \cup {immediateID}
                      ELSE clearedAhead
  /\ UNCHANGED <<GUIID, microtasks, invoked, returned>>
  /\ ShimFrame

\* the engine runs the oldest queued microtask
RunMicrotask ==
  /\ microtasks # <<>>
  /\ \E r \in {Microtask(clearedImmediates, invoked, Head(microtasks))} :
        /\ clearedImmediates' = r.cleared
        /\ invoked' = r.invoked
  /\ microtasks' = Tail(microtasks)
  /\ UNCHANGED <<GUIID, clearedInWindow, clearedAhead, returned>>
  /\ ShimFrame

\* ------------------------------------------------- actions: SQLiteModule.ts
SqliteFrame == UNCHANGED <<videoVars, shimVars>>

Constructed(log) == { k \in DOMAIN log : log[k].op = "new" }

\* new NativeDatabase(databasePath, options, serializedData)
NewNativeDatabase ==
  /\ Cardinality(Constructed(databaseLog)) < MaxObjects
  /\ \E r \in {PostIncrement(nextNativeDatabaseId)} :
        /\ nextNativeDatabaseId' = r.next
        /\ liveDatabases' = liveDatabases \cup {r.value}
        /\ databaseLog' = Append(databaseLog, [op |-> "new", id |-> r.value])
  /\ UNCHANGED <<nextNativeStatementId, liveStatements, statementLog>>
  /\ SqliteFrame

\* closeAsync / closeSync: the worker is asked to close the database of this id
CloseDatabase(id) ==
  /\ id \in liveDatabases
  /\ liveDatabases' = liveDatabases \ {id}
  /\ databaseLog' = Append(databaseLog, [op |-> "close", id |-> id])
  /\ UNCHANGED <<nextNativeDatabaseId, nextNativeStatementId, liveStatements, statementLog>>
  /\ SqliteFrame

\* new NativeStatement()
NewNativeStatement ==
  /\ Cardinality(Constructed(statementLog)) < MaxObjects
  /\ \E r \in {PostIncrement(nextNativeStatementId)} :
        /\ nextNativeStatementId' = r.next
        /\ liveStatements' = liveStatements \cup {r.value}
        /\ statementLog' = Append(statementLog, [op |-> "new", id |-> r.value])
  /\ UNCHANGED <<nextNativeDatabaseId, liveDatabases, databaseLog>>
  /\ SqliteFrame

\* finalizeAsync / finalizeSync
FinalizeStatement(id) ==
  /\ id \in liveStatements
  /\ liveStatements' = liveStatements \ {id}
  /\ statementLog' = Append(statementLog, [op |-> "finalize", id |-> id])
  /\ UNCHANGED <<nextNativeDatabaseId, nextNativeStatementId, liveDatabases, databaseLog>>
  /\ SqliteFrame

\* ------------------------------------------------------------------ Next
Next ==
  \/ \E new \in AVStatus : PlayerStatusChange(new)
  \/ \E new \in TimeControl : TimeControlStatusChange(new)
  \/ \E new \in Items \cup {None, Foreign}, buf \in BOOLEAN, caching \in BOOLEAN :
        ReplaceCurrentItem(new, buf, caching)
  \/ ForeignItemFails
  \/ \E new \in AVStatus, caching \in BOOLEAN : ItemStatusChange(new, caching)
  \/ IsBufferEmptyChange
  \/ \E ltk \in BOOLEAN : LikelyToKeepUpChange(ltk)
  \/ TracksChange
  \/ \E item \in Items, in \in SomeTaskInputs : TaskComplete(item, in)
  \/ PlayedToEnd
  \/ \E sub \in {None, "sub"} : MediaSelectionDidChange(sub)
  \/ \E cb \in {"onRateChanged", "onVolumeChanged", "onIsMutedChanged"}, ch \in BOOLEAN :
        PlayerValueChange(cb, ch)
  \/ \E d \in Delegates : RegisterDelegate(d)
  \/ \E d \in Delegates : UnregisterDelegate(d)
  \/ \E d \in Delegates : DestroyDelegate(d)
  \/ \E iv \in Intervals : StartOrUpdateTimeUpdates(iv)
  \/ StopTimeUpdates
  \/ \E iv \in Intervals : Tick(iv)
  \/ Cleanup
  \/ \E item \in Items, in \in SomeTaskInputs : TaskStore(item, in)
  \/ TaskDidSet
  \/ CleanupStatementRuns
  \/ \E t \in Threads, prop \in BlockingGetters : GetterCall(t, prop)
  \/ \E t \in Threads, prop \in LaunchingSetters : SetterCall(t, prop)
  \/ MainRunsBlock
  \/ \E t \in Threads : GetterReturn(t)
  \/ SetImmediate
  \/ \E id \in ImmediateIds : ClearImmediate(id)
  \/ RunMicrotask
  \/ NewNativeDatabase
  \/ \E id \in 0..MaxObjects : CloseDatabase(id)
  \/ NewNativeStatement
  \/ \E id \in 0..MaxObjects : FinalizeStatement(id)

Spec == Init /\ [][Next]_vars

\* The status state machine: the KVO events that drive status, isPlaying, error,
\* currentItem and loadedCurrentItem, observed by one listener.
NextStatus ==
  \/ \E new \in AVStatus : PlayerStatusChange(new)
  \/ \E new \in TimeControl : TimeControlStatusChange(new)
  \/ \E new \in Items \cup {None, Foreign}, buf \in BOOLEAN, caching \in BOOLEAN :
        ReplaceCurrentItem(new, buf, caching)
  \/ ForeignItemFails
  \/ \E new \in AVStatus, caching \in BOOLEAN : ItemStatusChange(new, caching)
  \/ IsBufferEmptyChange
  \/ \E ltk \in BOOLEAN : LikelyToKeepUpChange(ltk)
  \/ \E d \in Delegates : RegisterDelegate(d)
  \/ \E d \in Delegates : UnregisterDelegate(d)

SpecStatus == InitOne /\ [][NextStatus]_vars

\* The lifecycle: registry, item replacement, tracks tasks, notifications, sampler and
\* cleanup, with every listener; the player's and the items' statuses stay unknown.
NextLifecycle ==
  \/ \E new \in Items \cup {None, Foreign}, buf \in BOOLEAN, caching \in BOOLEAN :
        ReplaceCurrentItem(new, buf, caching)
  \/ TracksChange
  \/ \E item \in Items, in \in SomeTaskInputs : TaskComplete(item, in)
  \/ PlayedToEnd
  \/ \E sub \in {None, "sub"} : MediaSelectionDidChange(sub)
  \/ \E cb \in {"onRateChanged", "onVolumeChanged", "onIsMutedChanged"}, ch \in BOOLEAN :
        PlayerValueChange(cb, ch)
  \/ \E d \in Delegates : RegisterDelegate(d)
  \/ \E d \in Delegates : UnregisterDelegate(d)
  \/ \E d \in Delegates : DestroyDelegate(d)
  \/ \E iv \in Intervals : StartOrUpdateTimeUpdates(iv)
  \/ StopTimeUpdates
  \/ \E iv \in Intervals : Tick(iv)
  \/ Cleanup

SpecLifecycle == Init /\ [][NextLifecycle]_vars

\* Track selection: the tracks Task over every access log, track list and source uri
\* of the bounds, with one listener and one Task at a time.
NextTracks ==
  \/ \E new \in Items \cup {None} : ReplaceCurrentItem(new, FALSE, FALSE)
  \/ TracksChangeAlone
  \/ \E item \in Items, in \in TaskInputs : TaskComplete(item, in)
  \/ \E d \in Delegates : RegisterDelegate(d)

SpecTracks == InitOne /\ [][NextTracks]_vars

\* The observable fields (status, isPlaying, currentVideoTrack) and their
\* notifications, with every listener; the engine's own status stays unknown.
NextObservable ==
  \/ \E new \in TimeControl : TimeControlStatusChange(new)
  \/ \E new \in Items \cup {None} : ReplaceCurrentItem(new, FALSE, FALSE)
  \/ \E new \in AVStatus : ItemStatusChange(new, FALSE)
  \/ TracksChangeAlone
  \/ \E item \in Items, in \in SomeTaskInputs : TaskComplete(item, in)
  \/ \E d \in Delegates : RegisterDelegate(d)
  \/ \E d \in Delegates : DestroyDelegate(d)

SpecObservable == Init /\ [][NextObservable]_vars

\* The tracks Task as the threads run it: its store and its didSet are separate
\* steps that the handlers of the other threads interleave with.
NextRace ==
  \/ \E new \in Items \cup {None} : ReplaceCurrentItem(new, FALSE, FALSE)
  \/ TracksChange
  \/ \E item \in Items, in \in SomeTaskInputs : TaskStore(item, in)
  \/ TaskDidSet
  \/ \E new \in TimeControl : TimeControlStatusChange(new)
  \/ \E d \in Delegates : RegisterDelegate(d)
  \/ \E d \in Delegates : UnregisterDelegate(d)
  \/ \E iv \in Intervals : StartOrUpdateTimeUpdates(iv)
  \/ \E iv \in Intervals : Tick(iv)

SpecRace == Init /\ [][NextRace]_vars

\* cleanup() statement by statement, with the handlers of the other threads in between
NextCleanup ==
  \/ \E new \in Items \cup {None} : ReplaceCurrentItem(new, FALSE, FALSE)
  \/ PlayedToEnd
  \/ \E d \in Delegates : RegisterDelegate(d)
  \/ \E iv \in Intervals : StartOrUpdateTimeUpdates(iv)
  \/ \E iv \in Intervals : Tick(iv)
  \/ CleanupStatementRuns

SpecCleanup == Init /\ [][NextCleanup]_vars

\* The sampler under the status state machine: ticks while the engine and the items
\* change status, with every listener.
NextSampler ==
  \/ \E new \in AVStatus : PlayerStatusChange(new)
  \/ \E new \in Items \cup {None} : ReplaceCurrentItem(new, FALSE, FALSE)
  \/ \E new \in AVStatus : ItemStatusChange(new, FALSE)
  \/ \E d \in Delegates : RegisterDelegate(d)
  \/ \E d \in Delegates : DestroyDelegate(d)
  \/ \E iv \in Intervals : StartOrUpdateTimeUpdates(iv)
  \/ StopTimeUpdates
  \/ \E iv \in Intervals : Tick(iv)
  \/ Cleanup

SpecSampler == Init /\ [][NextSampler]_vars

\* The module's property reads and writes on the main thread and the JS thread; the
\* main thread keeps taking blocks off its queue.
NextModule ==
  \/ \E t \in Threads, prop \in BlockingGetters : GetterCall(t, prop)
  \/ \E t \in Threads, prop \in LaunchingSetters : SetterCall(t, prop)
  \/ MainRunsBlock
  \/ \E t \in Threads : GetterReturn(t)

SpecModule == Init /\ [][NextModule]_vars /\ WF_vars(MainRunsBlock)

\* immediateShim.js: setImmediate, clearImmediate and the microtask queue
NextShim ==
  \/ SetImmediate
  \/ \E id \in ImmediateIds : ClearImmediate(id)
  \/ RunMicrotask

SpecShim == Init /\ [][NextShim]_vars

\* SQLiteModule.ts: construction and disposal of NativeDatabases and NativeStatements
NextSqlite ==
  \/ NewNativeDatabase
  \/ \E id \in 0..MaxObjects : CloseDatabase(id)
  \/ NewNativeStatement
  \/ \E id \in 0..MaxObjects : FinalizeStatement(id)

SpecSqlite == Init /\ [][NextSqlite]_vars

\* ================================================================ claims
\* callbacks of kind cb the last operation delivered to listener d
Count(o, cb, d) == Cardinality({ k \in DOMAIN o : o[k].cb = cb /\ o[k].to = d })
\* subtitle-selection resets (subtitleTrack == nil) the last operation delivered to d
CountReset(o, d) ==
  Cardinality({ k \in DOMAIN o : /\ o[k].cb = "onSubtitleSelectionChanged"
                                 /\ o[k].to = d
                                 /\ o[k].new = None })
Registered(d) == d \in live /\ delegates[d] > 0
AttributeEvents ==
  {"playerStatus", "itemStatus", "timeControlStatus", "isPlaybackBufferEmpty",
   "isPlaybackLikelyToKeepUp", "currentItem"}
\* the step is the engine status becoming failed
EngineFailsStep == lastEvent'.name = "playerStatus" /\ lastEvent'.arg = "failed"
\* the step is an item replacement
ItemChangeStep == lastEvent'.name = "currentItem" /\ player'.currentItem # player.currentItem

\* C1: after every attribute event the stored error is non-nil exactly when
\* status == error.
C1_ErrorIffStatusError ==
  lastEvent.name \in AttributeEvents => ((error # "nil") <=> (status = "error"))

\* C2: after every attribute event, if the engine or the bound VideoPlayerItem is
\* failed, the canonical status is error.
C2_FailurePrecedence ==
  lastEvent.name \in AttributeEvents =>
    ((\/ player.status = "failed"
      \/ (player.currentItem \in Items /\ player.itemStatus[player.currentItem] = "failed"))
     => status = "error")

C5_LoadedOncePerItem ==
  player.currentItem \in Items =>
    /\ loadedCalls <= 1
    /\ (\E k \in DOMAIN out : out[k].cb = "onLoadedPlayerItem")
         => status \in {"readyToPlay", "error"}

\* C6: once cleanup() has returned, no operation delivers a callback to a listener
\* that was registered when it ran (and has not been registered again).
C6_NoCallbackAfterCleanup ==
  cleanedUp => \A k \in DOMAIN out : out[k].to \notin watch

\* C6 witness: a tracks task that was in flight finished after cleanup() and set the
\* track, and nobody was told
C6_Witness ==
  /\ cleanedUp
  /\ watch # {}
  /\ lastEvent.name = "tracksTask"
  /\ currentVideoTrack # None
  /\ out = <<>>

\* C7: every item replacement leaves currentVideoTrack none and delivers
\* onVideoTrackChanged(old, nil), once, to each registered listener exactly when a
\* track was set before.
C7_TrackResetOnReplace ==
  [][ItemChangeStep =>
       /\ currentVideoTrack' = None
       /\ \A d \in Delegates :
            Count(out', "onVideoTrackChanged", d) =
              IF Registered(d) /\ currentVideoTrack # None THEN 1 ELSE 0
       /\ \A k \in DOMAIN out' :
            out'[k].cb = "onVideoTrackChanged" =>
              (out'[k].old = currentVideoTrack /\ out'[k].new = None)]_vars

\* C7 witness: an item replacement found a track set and told a listener it is gone
C7_Witness ==
  /\ lastEvent.name = "currentItem"
  /\ currentVideoTrack = None
  /\ \E k \in DOMAIN out :
       out[k].cb = "onVideoTrackChanged" /\ out[k].old # None /\ out[k].new = None

C9_RegisterIdempotent ==
  \A d \in reRegistered :
    /\ delegates[d] = 1
    /\ d \in live =>
         \A k \in DOMAIN out : out[k].to \in Delegates => Count(out, out[k].cb, d) = 1

\* C9 witness: a listener registered twice got a callback
C9_Witness ==
  \E d \in reRegistered : Registered(d) /\ \E k \in DOMAIN out : out[k].to = d

\* C10: when a recognized item is bound, onItemChanged carries the item that was
\* current before the replacement as old and the new item as new.
C10_ItemChangedCarriesOldItem ==
  [][(ItemChangeStep /\ player'.currentItem \in Items) =>
       \A k \in DOMAIN out' :
         out'[k].cb = "onItemChanged" =>
           (out'[k].old = currentItem /\ out'[k].new = player'.currentItem)]_vars

\* what listener d received in an operation, in order, track notifications aside
RECURSIVE Received(_, _)
Received(o, d) ==
  IF o = <<>> THEN <<>>
  ELSE (IF Head(o).to = d /\ Head(o).cb # "onVideoTrackChanged"
        THEN <<<<Head(o).cb, Head(o).old, Head(o).new>>>> ELSE <<>>) \o Received(Tail(o), d)

\* C11: when the bound item becomes nil each registered listener receives
\* onItemChanged(old, nil), the status change to idle if status was not idle,
\* onLoadedPlayerItem(nil) and onSubtitleSelectionChanged(nil), in this order, and
\* afterwards status == idle, currentItem == nil and loadedCurrentItem == true.
C11_NilItemSequence ==
  [][(ItemChangeStep /\ player'.currentItem = None) =>
       /\ status' = "idle"
       /\ currentItem' = None
       /\ loadedCurrentItem'
       /\ \A d \in Delegates :
            Registered(d) =>
              Received(out', d) =
                <<<<"onItemChanged", currentItem, None>>>>
                \o (IF status # "idle" THEN <<<<"onStatusChanged", status, "idle">>>>
                    ELSE <<>>)
                \o <<<<"onLoadedPlayerItem", "-", None>>,
                     <<"onSubtitleSelectionChanged", None, None>>>>]_vars

\* C11 witness: a bound item was removed while status was not idle, and a listener
\* was told about the item and the status
C11_Witness ==
  /\ lastEvent = Event("currentItem", None)
  /\ status = "idle"
  /\ \E k \in DOMAIN out :
       out[k].cb = "onItemChanged" /\ out[k].to = DelegateOrder[1] /\ out[k].old \in Items
  /\ \E k \in DOMAIN out :
       out[k].cb = "onStatusChanged" /\ out[k].to = DelegateOrder[1] /\ out[k].new = "idle"

\* C12: when the bound item becomes an item that is no VideoPlayerItem, a warning is
\* logged, the loaded-with-nil sequence runs, and the observer ends in the state a nil
\* item leaves it in: status idle (never error), currentItem nil, loadedCurrentItem
\* true.
C12_ForeignItemEndsLikeAbsent ==
  [][(ItemChangeStep /\ player'.currentItem = Foreign) =>
       /\ status' = "idle"
       /\ currentItem' = None
       /\ loadedCurrentItem'
       /\ \E k \in DOMAIN out' : out'[k].cb = "log.warn"
       /\ \A d \in Delegates :
            Registered(d) => Count(out', "onLoadedPlayerItem", d) = 1]_vars

\* C13: a tracks Task of an item that is no longer the current one changes neither
\* currentVideoTrack nor fires onVideoTrackChanged.
C13_NoStaleTrack ==
  (taskInput.ran /\ taskInput.item # player.currentItem) =>
    /\ currentVideoTrack = taskInput.before
    /\ \A k \in DOMAIN out : out[k].cb # "onVideoTrackChanged"

\* C14: while a tracks Task is between its store to currentVideoTrack and the end of
\* the didSet fan-out, no attribute-event handler and no sampler tick runs.
C14_UpdatesSerialized ==
  [][didSetPending.active =>
       lastEvent'.name \notin (AttributeEvents \cup {"tick", "tracksTaskStore"})]_vars

\* neither the engine nor the current item is failed
NeitherFailed == player.status # "failed" /\ CurrentItemStatus(player) # "failed"
\* the status the bound item's own signals give: unknown, or readyToPlay and the buffer
ItemSignals(p) ==
  IF p.itemStatus[p.currentItem] = "unknown" \/ p.bufferEmpty THEN "loading"
  ELSE "readyToPlay"
\* the precedence function of the signals
Precedence(p) ==
  IF ItemSignals(p) = "readyToPlay" /\ p.timeControlStatus = "waitingToPlayAtSpecifiedRate"
  THEN "loading"
  ELSE ItemSignals(p)

\* C15: with nothing failed and a VideoPlayerItem bound, after every attribute event
\* status equals the precedence function of the signals.
C15_StatusIsPrecedence ==
  (lastEvent.name \in AttributeEvents /\ player.currentItem \in Items /\ NeitherFailed) =>
    status = Precedence(player)

C17_LoadedWhenReadyOrError ==
  (/\ lastEvent.name \in AttributeEvents
   /\ player.currentItem \in Items
   /\ status \in {"readyToPlay", "error"}) => loadedCurrentItem

\* the notifications of kind cb listener d received in an operation, in order
RECURSIVE Notifs(_, _, _)
Notifs(o, cb, d) ==
  IF o = <<>> THEN <<>>
  ELSE (IF Head(o).to = d /\ Head(o).cb = cb THEN <<Head(o)>> ELSE <<>>)
       \o Notifs(Tail(o), cb, d)
\* the notifications lead from the old value to the new one, every one a change
Chain(ns, from, to) ==
  IF ns = <<>> THEN from = to
  ELSE /\ ns[1].old = from
       /\ ns[Len(ns)].new = to
       /\ \A k \in DOMAIN ns : ns[k].old # ns[k].new
       /\ \A k \in 1..(Len(ns) - 1) : ns[k].new = ns[k + 1].old

\* C18: in every operation, each live registered listener receives for status,
\* isPlaying and currentVideoTrack exactly the changes of the value, once each, with
\* the old and the new value (nothing when the value stays), and a listener that is
\* not registered or no longer alive receives nothing.
C18_NotifiedOncePerChange ==
  [][\A d \in Delegates :
       IF Registered(d)
       THEN /\ Chain(Notifs(out', "onStatusChanged", d), status, status')
            /\ Chain(Notifs(out', "onIsPlayingChanged", d),
                     BoolStr(isPlaying), BoolStr(isPlaying'))
            /\ Chain(Notifs(out', "onVideoTrackChanged", d),
                     currentVideoTrack, currentVideoTrack')
       ELSE \A k \in DOMAIN out' : out'[k].to # d]_vars

\* C18 witness: one operation changed status and isPlaying and told both listeners
C18_Witness ==
  \A d \in Delegates :
    /\ Registered(d)
    /\ Len(Notifs(out, "onStatusChanged", d)) = 1
    /\ Len(Notifs(out, "onIsPlayingChanged", d)) = 1

\* an HLS item's tracks Task has just run with a source uri
HlsTaskRan == taskInput.ran /\ IsHls(taskInput.item) /\ taskInput.in.uriPresent
\* the uri of the most recent access-log event that has one
LatestUri(log) ==
  LET K == {k \in DOMAIN log : log[k].hasUri}
  IN log[CHOOSE k \in K : \A j \in K : j <= k].uri
HasPrefix(str, pat) == Len(str) >= Len(pat) /\ SubSeq(str, 1, Len(pat)) = pat
Occurs(str, pat) ==
  \E k \in 1..(Len(str) - Len(pat) + 1) : SubSeq(str, k, k + Len(pat) - 1) = pat
\* the known tracks whose id is id, in list order
WithId(tracks, id) == {k \in DOMAIN tracks : tracks[k].id = id}
\* currentVideoTrack is the first known track with this id, none if there is none
SelectedIs(tracks, id) ==
  IF WithId(tracks, id) = {} THEN currentVideoTrack = None
  ELSE currentVideoTrack = tracks[CHOOSE k \in WithId(tracks, id) :
                                     \A j \in WithId(tracks, id) : k <= j].name

\* C19 (as claimed): after the tracks Task of an HLS item whose access log has a uri,
\* the selected track is the known track whose id is the most recent such uri with the
\* base (the item uri without query and last path component) removed from its front.
C19_SelectsByPrefixRemoved ==
  (HlsTaskRan /\ \E k \in DOMAIN taskInput.in.log : taskInput.in.log[k].hasUri) =>
    LET uri == LatestUri(taskInput.in.log)
        base == taskInput.in.uri.dir
    IN SelectedIs(taskInput.in.tracks,
                  IF HasPrefix(uri, base) THEN SubSeq(uri, Len(base) + 1, Len(uri))
                  ELSE uri)

\* C19 (amended): the id is the most recent uri with every occurrence of the base
\* removed; when the uri starts with the base and holds it nowhere else, that is the
\* uri with the base prefix removed.
C19_SelectsByOccurrencesRemoved ==
  (HlsTaskRan /\ \E k \in DOMAIN taskInput.in.log : taskInput.in.log[k].hasUri) =>
    LET uri == LatestUri(taskInput.in.log)
        base == taskInput.in.uri.dir
        rest == SubSeq(uri, Len(base) + 1, Len(uri))
    IN /\ SelectedIs(taskInput.in.tracks, ReplacingOccurrences(uri, base))
       /\ (HasPrefix(uri, base) /\ ~Occurs(rest, base))
            => SelectedIs(taskInput.in.tracks, rest)

\* C19 witness: the item uri has a query, the log ends with an event without uri, the
\* event before it names track-720p.m3u8 under the base, and that track, second in the
\* list, is selected
C19_Witness ==
  /\ HlsTaskRan
  /\ taskInput.in.uri.query # None
  /\ Len(taskInput.in.log) = MaxLog
  /\ ~taskInput.in.log[MaxLog].hasUri
  /\ taskInput.in.log[MaxLog - 1].hasUri
  /\ taskInput.in.log[MaxLog - 1].uri = Dir \o <<"track-720p.m3u8">>
  /\ Len(taskInput.in.tracks) = 2
  /\ taskInput.in.tracks[2].name = "t720"
  /\ taskInput.in.tracks[1].name = "t1080"
  /\ currentVideoTrack = "t720"

\* the Task found no track: no event with a uri, or no known track with the id
NoMatch ==
  MatchToVideoTrack(LastWithUri(taskInput.in.log), taskInput.in.tracks, taskInput.in.uri)
    = None

\* C20 (as claimed): when the tracks Task of an HLS item finds no matching track, the
\* track is left as it was and no onVideoTrackChanged is fired.
C20_NoMatchLeavesTrack ==
  (HlsTaskRan /\ NoMatch) =>
    /\ currentVideoTrack = taskInput.before
    /\ \A k \in DOMAIN out : out[k].cb # "onVideoTrackChanged"

\* C20 (amended): when the tracks Task of an HLS item finds no matching track, the
\* track becomes none, and onVideoTrackChanged(old, nil) goes to each registered
\* listener exactly when a track was set before; with no source uri the Task changes
\* nothing and fires nothing.
C20_NoMatchClearsTrack ==
  /\ (HlsTaskRan /\ NoMatch) =>
       /\ currentVideoTrack = None
       /\ \A d \in Delegates :
            Count(out, "onVideoTrackChanged", d) =
              IF Registered(d) /\ taskInput.before # None THEN 1 ELSE 0
       /\ \A k \in DOMAIN out : out[k].old = taskInput.before /\ out[k].new = None
  /\ (taskInput.ran /\ IsHls(taskInput.item) /\ ~taskInput.in.uriPresent) =>
       (currentVideoTrack = taskInput.before /\ out = <<>>)

\* C20 witness: a track was selected, the next Task found no match, the track is gone
\* and the listener was told
C20_Witness ==
  /\ HlsTaskRan
  /\ NoMatch
  /\ taskInput.before # None
  /\ currentVideoTrack = None
  /\ Count(out, "onVideoTrackChanged", DelegateOrder[1]) = 1

\* the fan-outs that reach every handle of the set and change nothing else
PlainFanOuts == {"tick", "playedToEnd"}
CallbackOf(name) == IF name = "tick" THEN "onTimeUpdate" ELSE "onPlayedToEnd"

\* C21: a cleanup() that follows a cleanup() leaves the observer and the player as the
\* first call left them, delivers no callback and removes no sampler or subscription
\* again.
C21_CleanupIdempotent ==
  [][(lastEvent.name = "cleanup" /\ lastEvent'.name = "cleanup") =>
       /\ UNCHANGED <<player, delegates, currentItem, loadedCurrentItem,
                      periodicTimeObserver, currentVideoTrack, isPlaying, error, status,
                      playerObservers, itemObservers, activeItemObservers>>
       /\ out' = <<>>]_vars

\* C21 witness: cleanup() ran twice in a row, the first time with listeners registered
C21_Witness ==
  /\ lastEvent = Event("cleanup", "again")
  /\ watch # {}
  /\ currentItem \in Items
  /\ Installed(player) = {}

\* C22: at most one periodic observer is installed on the player, and a
\* startOrUpdateTimeUpdates leaves exactly the state that stopTimeUpdates followed by
\* startOrUpdateTimeUpdates of the same interval leaves: the new observer and no other.
C22_SingleSampler ==
  [][/\ SumOver(player'.timeObservers, Intervals) <= 1
     /\ lastEvent'.name = "startOrUpdateTimeUpdates" =>
          LET r == StopTimeUpdatesOn(periodicTimeObserver, player.timeObservers)
              q == StartOrUpdateTimeUpdatesOn(r.tok, r.inst, periodicTimeObserver')
          IN /\ periodicTimeObserver' = q.tok
             /\ player'.timeObservers = q.inst
             /\ Installed(player') = {periodicTimeObserver'}]_vars

\* C22 witness: the interval was changed while the sampler ran
C22_Witness ==
  /\ lastEvent = EventFrom("startOrUpdateTimeUpdates", None, "other interval")
  /\ periodicTimeObserver # 0
  /\ SumOver(player.timeObservers, Intervals) = 1

\* C23: while the sampler is started its observer is installed on the player, whatever
\* the status; a tick leaves the status alone and delivers one onTimeUpdate to every
\* live registered delegate; and a tick happens only while the sampler is started,
\* never after stopTimeUpdates or cleanup has returned.
C23_SamplingIndependentOfStatus ==
  [][/\ periodicTimeObserver' # 0 => player'.timeObservers[periodicTimeObserver'] > 0
     /\ lastEvent'.name = "tick" =>
          /\ periodicTimeObserver # 0
          /\ status' = status
          /\ \A d \in Delegates :
               Count(out', "onTimeUpdate", d) = IF Registered(d) THEN 1 ELSE 0]_vars

\* C23 witness: a tick in status error reached both listeners
C23_Witness ==
  /\ lastEvent.name = "tick"
  /\ status = "error"
  /\ \A d \in Delegates : Count(out, "onTimeUpdate", d) = 1

\* C24: unregisterDelegate(d) leaves no handle of d, every other handle and the
\* canonical state as they were, and calls nobody; cleanup leaves no handle and calls
\* nobody.
C24_UnregisterFrame ==
  [][/\ lastEvent'.name = "unregisterDelegate" =>
          /\ delegates' = [delegates EXCEPT ![lastEvent'.arg] = 0]
          /\ UNCHANGED <<player, currentItem, loadedCurrentItem, periodicTimeObserver,
                         currentVideoTrack, isPlaying, error, status, playerObservers,
                         itemObservers, activeItemObservers>>
          /\ out' = <<>>
     /\ lastEvent'.name = "cleanup" =>
          /\ \A d \in Delegates : delegates'[d] = 0
          /\ out' = <<>>]_vars

\* C24 witness: the first listener was unregistered while the second one, and a handle
\* of nobody else, stayed
C24_Witness ==
  /\ lastEvent = EventFrom("unregisterDelegate", DelegateOrder[1], "registered")
  /\ delegates[DelegateOrder[1]] = 0
  /\ delegates[DelegateOrder[2]] = 1
  /\ currentItem \in Items

\* C25 (as claimed): the statement of cleanup() that clears the delegate set runs after
\* the three that cancel the subscriptions.
C25_SubscriptionsThenDelegates ==
  [][lastEvent'.name = "cleanupStatement" =>
       (lastEvent'.arg = "removeAll" <=> cleanupPc = Len(CleanupOrder) - 1)]_vars

\* C25 (amended): cleanup() clears the delegate set first, then cancels the
\* player-level observers, then the item-level observers, then the sampler; each
\* statement leaves what the later ones work on alone.
C25_DelegatesThenSubscriptions ==
  [][lastEvent'.name = "cleanupStatement" =>
       /\ cleanupPc = 0 =>
            /\ lastEvent'.arg = "removeAll"
            /\ \A d \in Delegates : delegates'[d] = 0
            /\ UNCHANGED <<playerObservers, activeItemObservers, periodicTimeObserver>>
       /\ cleanupPc = 1 =>
            /\ lastEvent'.arg = "invalidatePlayerObservers"
            /\ ~playerObservers'
            /\ UNCHANGED <<delegates, activeItemObservers, periodicTimeObserver>>
       /\ cleanupPc = 2 =>
            /\ lastEvent'.arg = "invalidateCurrentPlayerItemObservers"
            /\ activeItemObservers' = {}
            /\ UNCHANGED <<delegates, playerObservers, periodicTimeObserver>>
       /\ cleanupPc = 3 =>
            /\ lastEvent'.arg = "stopTimeUpdates"
            /\ periodicTimeObserver' = 0
            /\ Installed(player') = {}
            /\ UNCHANGED <<delegates, playerObservers, activeItemObservers>>]_vars

\* C25 witness: the delegate set has been cleared of registered listeners and the
\* player-level observers are still valid, with an item observed and the sampler on
C25_Witness ==
  /\ lastEvent = Event("cleanupStatement", "removeAll")
  /\ watch # {}
  /\ playerObservers
  /\ activeItemObservers # {}
  /\ periodicTimeObserver # 0

\* C26: item-level observers are active on at most one item, and only on the item that
\* is bound (the player's current item and the observer's currentItem).
C26_ObserversOnBoundItemOnly ==
  /\ Cardinality(activeItemObservers) <= 1
  /\ \A item \in activeItemObservers :
       item \in Items /\ item = player.currentItem /\ item = currentItem

\* C26 witness: the second item is observed while a tracks Task of the first item,
\* bound before it, is still in flight
C26_Witness ==
  /\ lastEvent = Event("currentItem", "i2")
  /\ activeItemObservers = {"i2"}
  /\ "i1" \in tasks

\* C27: when a VideoPlayerItem becomes the current item, currentItem, currentVideoTrack
\* and loadedCurrentItem are at their baseline (nil, nil, false) when the observers of
\* the new item are installed and the item-status observer calls back.
C27_ResetBeforeInstall ==
  [][(ItemChangeStep /\ player'.currentItem \in Items) =>
       LET b == BeforeBranch(Self)
       IN /\ b.currentItem = None
          /\ b.currentVideoTrack = None
          /\ ~b.loadedCurrentItem]_vars

\* C28: no callback goes to a destroyed listener; a fan-out over the whole set reaches
\* every live registered listener exactly once, whatever expired handles the set holds.
C28_FanOutSkipsDestroyed ==
  /\ \A k \in DOMAIN out : out[k].to \in live \cup {"log"}
  /\ lastEvent.name \in PlainFanOuts =>
       \A d \in Delegates :
          Count(out, CallbackOf(lastEvent.name), d) = IF Registered(d) THEN 1 ELSE 0

\* C28 witness: the first listener was destroyed while registered, and a fan-out
\* reached the second one once
C28_Witness ==
  /\ lastEvent.name = "playedToEnd"
  /\ DelegateOrder[1] \notin live
  /\ delegates[DelegateOrder[1]] > 0
  /\ Count(out, "onPlayedToEnd", DelegateOrder[2]) = 1

\* C29: after a fan-out over the delegate set, the set holds no handle of a destroyed
\* listener.
C29_ExpiredPrunedOnFanOut ==
  lastEvent.name \in PlainFanOuts =>
    \A d \in Delegates : d \notin live => delegates[d] = 0

\* C30: a blocking getter that a thread is in completes, on the main thread too.
C30_GetterCompletes ==
  \A t \in Threads : (getter[t].state = "waiting") ~> (getter[t].state # "waiting")

\* the step ran the branch of a handler that stores an error: the engine failed, or
\* the item-status handler ran on a failed VideoPlayerItem
ErrorStoredStep ==
  \/ lastEvent'.name = "playerStatus" /\ player'.status = "failed"
  \/ /\ lastEvent'.name \in {"itemStatus", "currentItem"}
     /\ player'.currentItem \in Items
     /\ player'.itemStatus[player'.currentItem] = "failed"
\* the bound item carries an item-level error detail (its cachingError is set)
ItemDetail(p) == p.currentItem \in Items /\ p.currentItem \in p.cachingError

\* C31: a step that stores an error while the status is not error yet ends in status
\* error with a non-nil error, and that error is the one built from the item-level
\* detail whenever the bound item has one.
C31_ItemDetailPreferred ==
  [][(ErrorStoredStep /\ status # "error") =>
       /\ status' = "error"
       /\ error' # "nil"
       /\ ItemDetail(player') => error' = PlayerItemLoadException("caching")]_vars

\* C32: every onStatusChanged notification whose new status is error carries a
\* non-nil error, the one stored when the notification goes out.
C32_ErrorNotificationCarriesError ==
  \A k \in DOMAIN out :
     (out[k].cb = "onStatusChanged" /\ out[k].new = "error") =>
        (out[k].err # "nil" /\ out[k].err = error)

\* C32 witness: the engine failed and the listener was told error with the
\* PlayerException
C32_Witness ==
  /\ lastEvent.name = "playerStatus"
  /\ \E k \in DOMAIN out :
       /\ out[k].cb = "onStatusChanged"
       /\ out[k].new = "error"
       /\ out[k].err = "PlayerException"

\* ------------------------------------------------- claims: immediateShim.js, SQLiteModule.ts
\* the ids setImmediate returned whose microtask has run
Ran == { returned[k] : k \in DOMAIN returned } \ Pending

\* C33: when the microtask of an id runs, its callback is invoked, for the first and only
\* time, if clearImmediate(id) was not called since setImmediate returned the id; if it
\* was, the callback is not invoked and the id leaves clearedImmediates; no other step
\* invokes a callback.
C33_InvokedOnceUnlessCleared ==
  [][IF Len(microtasks') < Len(microtasks)
     THEN LET id == Head(microtasks) IN
          /\ \A o \in ImmediateIds \ {id} : invoked'[o] = invoked[o]
          /\ invoked[id] = 0
          /\ IF id \in clearedInWindow
             THEN invoked'[id] = 0 /\ id \notin clearedImmediates'
             ELSE invoked'[id] = 1
     ELSE invoked' = invoked]_vars

C33_Witness ==
  \E a, b \in Ran :
     /\ a \notin clearedInWindow /\ invoked[a] = 1
     /\ b \in clearedInWindow /\ invoked[b] = 0 /\ b \notin clearedImmediates

\* C34: the ids setImmediate returns are strictly increasing (so distinct), and an id that
\* clearImmediate was given before setImmediate assigned it is not cancelled by that call:
\* while its microtask is queued it is in clearedImmediates only if it was cleared again
\* since, and unless it was, its callback has run once the microtask has.
C34_GuessedClearDoesNotCancel ==
  /\ \A i, j \in DOMAIN returned : i < j => returned[i] < returned[j]
  /\ \A id \in clearedAhead \ clearedInWindow :
        /\ id \in Pending => id \notin clearedImmediates
        /\ id \in Ran => invoked[id] = 1

C34_Witness ==
  /\ Len(returned) >= 2
  /\ \E id \in (clearedAhead \ clearedInWindow) \cap Ran : invoked[id] = 1

\* the ids a log gave to the objects it constructed, in order of construction
NewIds(log) == SelectSeq(log, LAMBDA e : e.op = "new")

StrictlyIncreasingIds(log) ==
  \A i, j \in DOMAIN NewIds(log) : i < j => NewIds(log)[i].id < NewIds(log)[j].id

\* C35: NativeDatabases get ids in strictly increasing order of construction, and so do
\* NativeStatements, whatever was closed or finalized in between: no two objects of a kind
\* share an id, and a new object never has the id of a closed or finalized one.
C35_IdsNeverReused ==
  /\ StrictlyIncreasingIds(databaseLog)
  /\ StrictlyIncreasingIds(statementLog)
  /\ Cardinality(liveDatabases) = Len(NewIds(databaseLog)) - (Len(databaseLog) - Len(NewIds(databaseLog)))
  /\ Cardinality(liveStatements) = Len(NewIds(statementLog)) - (Len(statementLog) - Len(NewIds(statementLog)))

C35_Witness ==
  /\ \E i, j, k \in DOMAIN databaseLog :
        /\ i < j /\ j < k
        /\ databaseLog[i].op = "new" /\ databaseLog[j] = [op |-> "close", id |-> databaseLog[i].id]
        /\ databaseLog[k].op = "new" /\ databaseLog[k].id > databaseLog[i].id
  /\ \E i, j, k \in DOMAIN statementLog :
        /\ i < j /\ j < k
        /\ statementLog[i].op = "new"
        /\ statementLog[j] = [op |-> "finalize", id |-> statementLog[i].id]
        /\ statementLog[k].op = "new" /\ statementLog[k].id > statementLog[i].id
        /\ Cardinality(liveStatements) >= 2

====
